---- MODULE Spec2Model ----
(***************************************************************************)
(* Model of src/lib.rs: the toroidal Game of Life Universe, its cell       *)
(* editing operations, its generation advance, its resize and its two      *)
(* drawing modes.                                                          *)
(***************************************************************************)
EXTENDS Integers, Sequences, FiniteSets, TLC

VARIABLES width, height, cells, buffered_cells_,
          square_size_px, square_spacing_px, hist

vars == <<width, height, cells, buffered_cells_,
          square_size_px, square_spacing_px, hist>>

(***************************************************************************)
(* Bounds of the model.                                                    *)
(***************************************************************************)
MaxDim == 3
MaxCells == 9
MaxCoord == 3
MaxNewDim == 4
MaxSteps == 1
MaxToggles == 2
MaxToggleCells == 6
MaxLine == 7
MaxTicks == 4
BlinkerMin == 5
BlinkerMax == 6
MaxSeq == 2
MaxTwinCells == 4
MaxSize == 2
MaxSpacing == 2
MaxDrawDim == 2
MaxDrawCells == 4
MaxDraws == 2
MaxStrokeCells == 2

(***************************************************************************)
(* enum Cell                                                               *)
(***************************************************************************)
Dead == 0
Alive == 1
Cell == {Dead, Alive}

DEFAULT_SQUARE_SIZE == 8
DEFAULT_SPACING == 1

(***************************************************************************)
(* struct Universe, as a value; Self is the universe held in the state.    *)
(***************************************************************************)
Universe(w, h, cs, bs) ==
    [width |-> w, height |-> h, cells |-> cs, buffered_cells_ |-> bs]

Self == Universe(width, height, cells, buffered_cells_)

(***************************************************************************)
(* Private impl                                                            *)
(***************************************************************************)
\* Variant of get_cell_idx that wraps the flat index instead of each
\* coordinate.
get_cell_idx_flat(u, x, y) == (y * u.width + x) % (u.width * u.height)

get_cell_idx(u, x, y) ==
    LET xw == x % u.width
        yw == y % u.height
    IN  yw * u.width + xw

get_cell_at(u, x, y) == u.cells[get_cell_idx(u, x, y) + 1]

\* The offsets iterated by get_live_neighbor_count, in the order of the
\* two nested loops; an offset pair is skipped when both components are 0.
neighbor_dx(u) == <<u.width - 1, 0, 1>>
neighbor_dy(u) == <<u.height - 1, 0, 1>>

RECURSIVE neighbor_loop(_, _, _, _)
neighbor_loop(u, x, y, k) ==
    IF k = 9 THEN 0
    ELSE LET dx == neighbor_dx(u)[(k \div 3) + 1]
             dy == neighbor_dy(u)[(k % 3) + 1]
             nx == (x + dx) % u.width
             ny == (y + dy) % u.height
             rest == neighbor_loop(u, x, y, k + 1)
         IN  IF dx = 0 /\ dy = 0 THEN rest
             ELSE (IF get_cell_at(u, nx, ny) = Alive THEN 1 ELSE 0) + rest

\* Variant of get_live_neighbor_count that does not skip the cell itself.
live_count_with_self(u, x, y) ==
    neighbor_loop(u, x, y, 0) + (IF get_cell_at(u, x, y) = Alive THEN 1 ELSE 0)

get_live_neighbor_count(u, x, y) == neighbor_loop(u, x, y, 0)

(***************************************************************************)
(* Cell editing                                                            *)
(***************************************************************************)
\* Variant of set_cell_at that writes through the wrapping index without
\* the bounds check.
set_cell_at_wrapping(u, x, y, cell_type) ==
    [u EXCEPT !.cells[get_cell_idx(u, x, y) + 1] = cell_type]

set_cell_at(u, x, y, cell_type) ==
    IF x < u.width /\ y < u.height
    THEN [u EXCEPT !.cells[get_cell_idx(u, x, y) + 1] = cell_type]
    ELSE u

\* Variant of toggle_cell_at whose two match arms both yield Alive.
toggle_cell_at_stuck(u, x, y) == set_cell_at(u, x, y, Alive)

toggle_cell_at(u, x, y) ==
    LET new_value == IF get_cell_at(u, x, y) = Alive THEN Dead ELSE Alive
    IN  set_cell_at(u, x, y, new_value)

\* The two nested loops of clear: x outer, y inner.
RECURSIVE clear_column(_, _, _)
clear_column(u, x, y) ==
    IF y >= u.height THEN u
    ELSE clear_column(set_cell_at(u, x, y, Dead), x, y + 1)

RECURSIVE clear_columns(_, _)
clear_columns(u, x) ==
    IF x >= u.width THEN u
    ELSE clear_columns(clear_column(u, x, 0), x + 1)

\* Variant of clear that leaves the first column as it is.
clear_skipping_first_column(u) == clear_columns(u, 1)

clear(u) == clear_columns(u, 0)

(***************************************************************************)
(* Generation advance                                                      *)
(***************************************************************************)
\* The arm of the match in tick that fires for (cell, n): first match wins.
tick_arm(cell, n) ==
    IF n < 2 THEN 1
    ELSE IF (cell = Alive /\ n = 2) \/ n = 3 THEN 2
    ELSE IF n > 3 THEN 3
    ELSE 4

\* Variant of tick_rule without the overcrowding arm.
tick_rule_no_overcrowding(cell, n) ==
    IF n < 2 THEN Dead
    ELSE IF (cell = Alive /\ n = 2) \/ n = 3 THEN Alive
    ELSE cell

tick_rule(cell, n) ==
    CASE tick_arm(cell, n) = 1 -> Dead
      [] tick_arm(cell, n) = 2 -> Alive
      [] tick_arm(cell, n) = 3 -> Dead
      [] OTHER -> cell

\* The two nested loops of tick: x outer, y inner; each step reads the
\* primary buffer and writes the back buffer.
RECURSIVE tick_column(_, _, _)
tick_column(u, x, y) ==
    IF y >= u.height THEN u
    ELSE LET idx == get_cell_idx(u, x, y)
             v == tick_rule(u.cells[idx + 1], get_live_neighbor_count(u, x, y))
         IN  tick_column([u EXCEPT !.buffered_cells_[idx + 1] = v], x, y + 1)

RECURSIVE tick_columns(_, _)
tick_columns(u, x) ==
    IF x >= u.width THEN u
    ELSE tick_columns(tick_column(u, x, 0), x + 1)

\* Variant of tick that writes each result into the primary buffer at once,
\* so that later cells of the same pass read it.
RECURSIVE tick_column_in_place(_, _, _)
tick_column_in_place(u, x, y) ==
    IF y >= u.height THEN u
    ELSE LET idx == get_cell_idx(u, x, y)
             v == tick_rule(u.cells[idx + 1], get_live_neighbor_count(u, x, y))
         IN  tick_column_in_place([u EXCEPT !.cells[idx + 1] = v], x, y + 1)

RECURSIVE tick_columns_in_place(_, _)
tick_columns_in_place(u, x) ==
    IF x >= u.width THEN u
    ELSE tick_columns_in_place(tick_column_in_place(u, x, 0), x + 1)

tick_in_place(u) == tick_columns_in_place(u, 0)

\* Variant of tick that leaves the first column of the back buffer as it is.
tick_skipping_first_column(u) ==
    LET done == tick_columns(u, 1)
    IN  [done EXCEPT !.cells = done.buffered_cells_,
                     !.buffered_cells_ = done.cells]

tick(u) ==
    LET done == tick_columns(u, 0)
    IN  [done EXCEPT !.cells = done.buffered_cells_,
                     !.buffered_cells_ = done.cells]

(***************************************************************************)
(* u32 arithmetic.  A product is computed from halves of HalfBits bits so  *)
(* that no intermediate value leaves the range of the model's integers;    *)
(* value is the product modulo 2^WordBits, the result of a build without   *)
(* overflow checks, and overflow says that the exact product does not fit, *)
(* where a build with overflow checks panics.                              *)
(***************************************************************************)
WordBits == 32
HalfBits == WordBits \div 2

RECURSIVE pow2(_)
pow2(n) == IF n = 0 THEN 1 ELSE 2 * pow2(n - 1)

Half == pow2(HalfBits)
Quarter == pow2(HalfBits \div 2)

mul_u32(a, b) ==
    LET ah == a \div Half
        al == a % Half
        bh == b \div Half
        bl == b % Half
        p0 == (al % Quarter) * bl
        p1 == (al \div Quarter) * bl
        low == p0 + (p1 % Quarter) * Quarter
        carry == low \div Half + p1 \div Quarter
        c1 == ah * bl
        c2 == al * bh
        high == carry + (c1 % Half) + (c2 % Half)
    IN  [value |-> (high % Half) * Half + (low % Half),
         overflow |-> ah * bh > 0 \/ c1 >= Half \/ c2 >= Half \/ high >= Half]

(***************************************************************************)
(* Grid lifecycle                                                          *)
(***************************************************************************)
\* Variant of resize_to that pads with Dead outside the old grid.
resize_to_padded(u, w, h) ==
    LET sampled == [i \in 1..(w * h) |->
                       IF (i - 1) % w < u.width /\ (i - 1) \div w < u.height
                       THEN get_cell_at(u, (i - 1) % w, (i - 1) \div w)
                       ELSE Dead]
    IN  Universe(w, h, sampled, sampled)

resize_to(u, w, h) ==
    LET sampled == [i \in 1..mul_u32(w, h).value |->
                       get_cell_at(u, (i - 1) % w, (i - 1) \div w)]
    IN  Universe(w, h, sampled, sampled)

\* Variant of new that seeds the even indices only.
new_even_only(w, h) ==
    LET seeded == [i \in 1..(w * h) |->
                      IF (i - 1) % 2 = 0 THEN Alive ELSE Dead]
    IN  Universe(w, h, seeded, seeded)

new(w, h) ==
    LET seeded == [i \in 1..mul_u32(w, h).value |->
                      IF (i - 1) % 2 = 0 \/ (i - 1) % 7 = 0 THEN Alive ELSE Dead]
    IN  Universe(w, h, seeded, seeded)

(***************************************************************************)
(* f64 arithmetic as toggle_cells_between uses it.  A magnitude is a       *)
(* fixed-point number of three limbs <<hi, mid, lo>> of LimbBits bits      *)
(* each, counted in units of 2^-FracBits; a value is a sign and a          *)
(* magnitude.  Every result is rounded to F64_MANT significant bits, ties  *)
(* to even, as IEEE 754 binary64 does.  The layout represents exactly      *)
(* every binary64 value that arises for coordinates below 2^IntBits whose  *)
(* quotients are at least 2^(F64_MANT - 1 - FracBits).                     *)
(***************************************************************************)
F64_MANT == 53
LimbBits == 24
HighFracBits == 14
IntBits == LimbBits - HighFracBits
FracBits == HighFracBits + 2 * LimbBits

Limb == pow2(LimbBits)

\* The position of the highest set bit of n > 0, counted from 0.
RECURSIVE top_bit(_)
top_bit(n) == IF n < 2 THEN 0 ELSE 1 + top_bit(n \div 2)

zero_mag == <<0, 0, 0>>

add_mag(a, b) ==
    LET lo == a[3] + b[3]
        mid == a[2] + b[2] + lo \div Limb
        hi == a[1] + b[1] + mid \div Limb
    IN  <<hi, mid % Limb, lo % Limb>>

\* a - b for a >= b.
sub_mag(a, b) ==
    LET lo == a[3] - b[3]
        mid == a[2] - b[2] - (IF lo < 0 THEN 1 ELSE 0)
        hi == a[1] - b[1] - (IF mid < 0 THEN 1 ELSE 0)
    IN  <<hi, (mid + Limb) % Limb, (lo + Limb) % Limb>>

less_mag(a, b) ==
    \/ a[1] < b[1]
    \/ a[1] = b[1] /\ a[2] < b[2]
    \/ a[1] = b[1] /\ a[2] = b[2] /\ a[3] < b[3]

\* Round a magnitude to F64_MANT significant bits, ties to even; sticky says
\* that the exact value has further non-zero bits below the last limb.
round_mant(a, sticky) ==
    IF a = zero_mag THEN a
    ELSE LET lead == IF a[1] > 0 THEN 2 * LimbBits + top_bit(a[1])
                     ELSE IF a[2] > 0 THEN LimbBits + top_bit(a[2])
                     ELSE top_bit(a[3])
             drop == lead - (F64_MANT - 1)
         IN  IF drop <= 0 THEN a
             ELSE LET rem == a[3] % pow2(drop)
                      half == pow2(drop - 1)
                      odd == (a[3] \div pow2(drop)) % 2 = 1
                      kept == <<a[1], a[2], a[3] - rem>>
                      up == rem > half \/ (rem = half /\ (sticky \/ odd))
                  IN  IF up THEN add_mag(kept, <<0, 0, pow2(drop)>>) ELSE kept

nat_mag(n) == <<n * pow2(HighFracBits), 0, 0>>

\* The integer part of a magnitude, and its first fractional bit.
int_part(a) == a[1] \div pow2(HighFracBits)
half_bit(a) == (a[1] \div pow2(HighFracBits - 1)) % 2

f64(neg, mag) == [neg |-> neg, mag |-> mag]

\* `n as f64` for a u32 n.
f64_from_u32(n) == f64(FALSE, nat_mag(n))

f64_neg(a) == f64(~a.neg, a.mag)

f64_add(a, b) ==
    IF a.neg = b.neg THEN f64(a.neg, round_mant(add_mag(a.mag, b.mag), FALSE))
    ELSE IF less_mag(a.mag, b.mag)
         THEN f64(b.neg, round_mant(sub_mag(b.mag, a.mag), FALSE))
    ELSE IF a.mag = b.mag THEN f64(FALSE, zero_mag)
    ELSE f64(a.neg, round_mant(sub_mag(a.mag, b.mag), FALSE))

\* Binary long division: the next k bits of r / d for r < d, and the
\* remainder left after them.
div_bits(r, d, k) ==
    [q |-> (r * pow2(k)) \div d, rem |-> (r * pow2(k)) % d]

div_limb(r, d) ==
    LET k1 == LimbBits \div 2
        k2 == LimbBits - k1
        s1 == div_bits(r, d, k1)
        s2 == div_bits(s1.rem, d, k2)
    IN  [q |-> s1.q * pow2(k2) + s2.q, rem |-> s2.rem]

\* a / b for integer-valued a and b # 0 (the deltas of toggle_cells_between).
f64_div(a, b) ==
    LET n == int_part(a.mag)
        d == int_part(b.mag)
        hi == div_bits(n % d, d, HighFracBits)
        mid == div_limb(hi.rem, d)
        lo == div_limb(mid.rem, d)
        q == <<(n \div d) * pow2(HighFracBits) + hi.q, mid.q, lo.q>>
    IN  f64(a.neg # b.neg, round_mant(q, lo.rem # 0))

\* `a.round() as u32`: half away from zero, then the saturating cast.
f64_round_as_u32(a) ==
    IF a.neg THEN 0 ELSE int_part(a.mag) + half_bit(a.mag)

(***************************************************************************)
(* toggle_cells_between                                                    *)
(***************************************************************************)
Abs(n) == IF n < 0 THEN -n ELSE n

\* `n as f64` for a signed difference n of two u32 (exact in f64).
f64_from_delta(n) ==
    IF n < 0 THEN f64_neg(f64_from_u32(-n)) ELSE f64_from_u32(n)

\* for x in (x1 + 1)..x2 { y += delta_y / delta_x; toggle (x, y.round()) }
RECURSIVE walk_x(_, _, _, _, _, _)
walk_x(u, x, x2, y, delta_y, delta_x) ==
    IF x >= x2 THEN u
    ELSE LET y_next == f64_add(y, f64_div(delta_y, delta_x))
         IN  walk_x(toggle_cell_at(u, x, f64_round_as_u32(y_next)),
                    x + 1, x2, y_next, delta_y, delta_x)

\* for y in (y1 + 1)..y2 { x += delta_x / delta_y; toggle (x.round(), y) }
RECURSIVE walk_y(_, _, _, _, _, _)
walk_y(u, y, y2, x, delta_x, delta_y) ==
    IF y >= y2 THEN u
    ELSE LET x_next == f64_add(x, f64_div(delta_x, delta_y))
         IN  walk_y(toggle_cell_at(u, f64_round_as_u32(x_next), y),
                    y + 1, y2, x_next, delta_x, delta_y)

\* Variant of x_is_param that also holds when the two deltas tie.
x_is_param_on_tie(x1, y1, x2, y2) == Abs(y2 - y1) <= Abs(x2 - x1)

x_is_param(x1, y1, x2, y2) == Abs(y2 - y1) < Abs(x2 - x1)

\* Variant of toggle_cells_between without the swap of the endpoints.
toggle_cells_between_unswapped(u, x1, y1, x2, y2) ==
    IF x1 = x2 /\ y1 = y2 THEN u
    ELSE LET delta_x == f64_from_delta(x2 - x1)
             delta_y == f64_from_delta(y2 - y1)
         IN  IF x_is_param(x1, y1, x2, y2)
             THEN walk_x(u, x1 + 1, x2, f64_from_u32(y1), delta_y, delta_x)
             ELSE walk_y(u, y1 + 1, y2, f64_from_u32(x1), delta_x, delta_y)

toggle_cells_between(u, x1, y1, x2, y2) ==
    IF x1 = x2 /\ y1 = y2 THEN u
    ELSE LET x_param == x_is_param(x1, y1, x2, y2)
             y_param == ~x_param
             swap == (x2 < x1 /\ x_param) \/ (y2 < y1 /\ y_param)
             delta_x == f64_from_delta(IF swap THEN -(x2 - x1) ELSE x2 - x1)
             delta_y == f64_from_delta(IF swap THEN -(y2 - y1) ELSE y2 - y1)
             sx1 == IF swap THEN x2 ELSE x1
             sx2 == IF swap THEN x1 ELSE x2
             sy1 == IF swap THEN y2 ELSE y1
             sy2 == IF swap THEN y1 ELSE y2
         IN  IF x_param
             THEN walk_x(u, sx1 + 1, sx2, f64_from_u32(sy1), delta_y, delta_x)
             ELSE walk_y(u, sy1 + 1, sy2, f64_from_u32(sx1), delta_x, delta_y)

\* The coordinates toggled by the x loop and by the y loop, in order.
RECURSIVE visited_x(_, _, _, _, _)
visited_x(x, x2, y, delta_y, delta_x) ==
    IF x >= x2 THEN <<>>
    ELSE LET y_next == f64_add(y, f64_div(delta_y, delta_x))
         IN  <<<<x, f64_round_as_u32(y_next)>>>>
                 \o visited_x(x + 1, x2, y_next, delta_y, delta_x)

RECURSIVE visited_y(_, _, _, _, _)
visited_y(y, y2, x, delta_x, delta_y) ==
    IF y >= y2 THEN <<>>
    ELSE LET x_next == f64_add(x, f64_div(delta_x, delta_y))
         IN  <<<<f64_round_as_u32(x_next), y>>>>
                 \o visited_y(y + 1, y2, x_next, delta_x, delta_y)

\* The coordinates that toggle_cells_between(x1, y1, x2, y2) passes to
\* toggle_cell_at, in order.
visited(x1, y1, x2, y2) ==
    IF x1 = x2 /\ y1 = y2 THEN <<>>
    ELSE LET x_param == x_is_param(x1, y1, x2, y2)
             y_param == ~x_param
             swap == (x2 < x1 /\ x_param) \/ (y2 < y1 /\ y_param)
             delta_x == f64_from_delta(IF swap THEN -(x2 - x1) ELSE x2 - x1)
             delta_y == f64_from_delta(IF swap THEN -(y2 - y1) ELSE y2 - y1)
             sx1 == IF swap THEN x2 ELSE x1
             sx2 == IF swap THEN x1 ELSE x2
             sy1 == IF swap THEN y2 ELSE y1
             sy2 == IF swap THEN y1 ELSE y2
         IN  IF x_param
             THEN visited_x(sx1 + 1, sx2, f64_from_u32(sy1), delta_y, delta_x)
             ELSE visited_y(sy1 + 1, sy2, f64_from_u32(sx1), delta_x, delta_y)

(***************************************************************************)
(* Drawing.  The drawing surface is outside the program: render_cells      *)
(* yields the image it hands to put_image_data, fill_cells the rectangles  *)
(* it passes to fill_rect.  An image is its byte length, the row stride in *)
(* pixels given to the ImageData constructor, and data, the bytes written  *)
(* by index (every other byte of the buffer is 0).                         *)
(***************************************************************************)
\* self.width * 4 * self.height * square_size * square_size, left to right.
render_len(u, square_size) ==
    LET m1 == mul_u32(u.width, 4)
        m2 == mul_u32(m1.value, u.height)
        m3 == mul_u32(m2.value, square_size)
        m4 == mul_u32(m3.value, square_size)
    IN  [value |-> m4.value,
         overflow |-> m1.overflow \/ m2.overflow \/ m3.overflow \/ m4.overflow]

\* ((j * self.width * square_size + i) as usize) * 4
render_idx(u, square_size, i, j) ==
    (mul_u32(mul_u32(j, u.width).value, square_size).value + i) * 4

\* Variant of render_block that leaves out the spacing before the square.
render_block_unspaced(u, size, spacing, x, y) ==
    LET square_size == size + spacing
    IN  {render_idx(u, square_size, i, j) + k :
            j \in (y * square_size)..(y * square_size + size - 1),
            i \in (x * square_size)..(x * square_size + size - 1),
            k \in 0..3}

\* The byte indices written for cell (x, y).
render_block(u, size, spacing, x, y) ==
    LET square_size == size + spacing
        square_x == x * square_size + spacing
        square_y == y * square_size + spacing
    IN  {render_idx(u, square_size, i, j) + k :
            j \in square_y..(square_y + size - 1),
            i \in square_x..(square_x + size - 1),
            k \in 0..3}

render_cells(u, size, spacing, cell_type, color) ==
    LET square_size == size + spacing
        written == UNION {render_block(u, size, spacing, p[1], p[2]) :
                             p \in {q \in (0..(u.width - 1)) \X (0..(u.height - 1)) :
                                        get_cell_at(u, q[1], q[2]) = cell_type}}
    IN  [len |-> render_len(u, square_size).value,
         stride |-> mul_u32(u.width, square_size).value,
         data |-> [b \in written |-> color[(b % 4) + 1]]]

\* The two nested loops of fill_cells: x outer, y inner.
RECURSIVE fill_column(_, _, _, _, _, _)
fill_column(u, size, spacing, cell_type, x, y) ==
    IF y >= u.height THEN <<>>
    ELSE LET square_size == size + spacing
             square_x == x * square_size + spacing
             square_y == y * square_size + spacing
             rest == fill_column(u, size, spacing, cell_type, x, y + 1)
         IN  IF get_cell_at(u, x, y) # cell_type THEN rest
             ELSE <<<<square_x, square_y, size, size>>>> \o rest

RECURSIVE fill_columns(_, _, _, _, _)
fill_columns(u, size, spacing, cell_type, x) ==
    IF x >= u.width THEN <<>>
    ELSE fill_column(u, size, spacing, cell_type, x, 0)
             \o fill_columns(u, size, spacing, cell_type, x + 1)

fill_cells(u, size, spacing, cell_type) ==
    fill_columns(u, size, spacing, cell_type, 0)

(***************************************************************************)
(* Panics.  For each operation, whether a call of it on universe u panics: *)
(* an index outside a buffer, a remainder by zero, or an overflowing       *)
(* product in a build with overflow checks.                                *)
(***************************************************************************)
get_cell_idx_panics(u, x, y) == u.width = 0 \/ u.height = 0

get_cell_at_panics(u, x, y) ==
    \/ get_cell_idx_panics(u, x, y)
    \/ get_cell_idx(u, x, y) >= Len(u.cells)

set_cell_at_panics(u, x, y) ==
    /\ x < u.width /\ y < u.height
    /\ \/ get_cell_idx_panics(u, x, y)
       \/ get_cell_idx(u, x, y) >= Len(u.cells)

toggle_cell_at_panics(u, x, y) ==
    get_cell_at_panics(u, x, y) \/ set_cell_at_panics(u, x, y)

toggle_cells_between_panics(u, x1, y1, x2, y2) ==
    LET vs == visited(x1, y1, x2, y2)
    IN  \E k \in 1..Len(vs) : toggle_cell_at_panics(u, vs[k][1], vs[k][2])

get_live_neighbor_count_panics(u, x, y) ==
    \/ u.width = 0 \/ u.height = 0
    \/ \E k \in 0..8 :
          LET dx == neighbor_dx(u)[(k \div 3) + 1]
              dy == neighbor_dy(u)[(k % 3) + 1]
          IN  /\ ~(dx = 0 /\ dy = 0)
              /\ get_cell_at_panics(u, (x + dx) % u.width, (y + dy) % u.height)

clear_panics(u) ==
    \E x \in 0..(u.width - 1), y \in 0..(u.height - 1) :
        set_cell_at_panics(u, x, y)

tick_panics(u) ==
    \E x \in 0..(u.width - 1), y \in 0..(u.height - 1) :
        \/ get_cell_at_panics(u, x, y)
        \/ get_live_neighbor_count_panics(u, x, y)
        \/ get_cell_idx(u, x, y) >= Len(u.buffered_cells_)

render_cells_panics(u, size, spacing, cell_type, overflow_checks) ==
    LET square_size == size + spacing
        len == render_len(u, square_size)
    IN  \/ overflow_checks /\ len.overflow
        \/ \E x \in 0..(u.width - 1) : \E y \in 0..(u.height - 1) :
              \/ get_cell_at_panics(u, x, y)
              \/ /\ get_cell_at(u, x, y) = cell_type
                 /\ LET square_x == x * square_size + spacing
                        square_y == y * square_size + spacing
                    IN  \E j \in square_y..(square_y + size - 1) :
                            \E i \in square_x..(square_x + size - 1) :
                                render_idx(u, square_size, i, j) + 3 >= len.value

fill_cells_panics(u, cell_type) ==
    \E x \in 0..(u.width - 1), y \in 0..(u.height - 1) :
        get_cell_at_panics(u, x, y)

resize_to_panics(u, w, h, overflow_checks) ==
    \/ overflow_checks /\ mul_u32(w, h).overflow
    \/ \E i \in 0..(mul_u32(w, h).value - 1) :
          w = 0 \/ get_cell_at_panics(u, i % w, i \div w)

(***************************************************************************)
(* The state machine.  hist records, for every operation performed so far, *)
(* its name, its arguments, its return value and the universe it was       *)
(* applied to.                                                             *)
(***************************************************************************)
Coords == 0..MaxCoord
Corners == {0, MaxCoord}
LineCoords == 0..MaxLine

\* A history entry; panic says that the call panicked, and axis names the
\* driving axis that toggle_cells_between chose.
Entry(op, x, y, x2, y2, cell, ret) ==
    [op |-> op, x |-> x, y |-> y, x2 |-> x2, y2 |-> y2, cell |-> cell,
     ret |-> ret, before |-> Self, panic |-> FALSE, axis |-> "none"]

Becomes(u, entry) ==
    /\ width' = u.width
    /\ height' = u.height
    /\ cells' = u.cells
    /\ buffered_cells_' = u.buffered_cells_
    /\ hist' = Append(hist, entry)
    /\ UNCHANGED <<square_size_px, square_spacing_px>>

\* A panic ends the run; the universe it leaves behind is not used again.
Outcome(panics, u, entry) ==
    IF panics THEN Becomes(Self, [entry EXCEPT !.panic = TRUE])
    ELSE Becomes(u, entry)

Holds(u) ==
    /\ width = u.width
    /\ height = u.height
    /\ cells = u.cells
    /\ buffered_cells_ = u.buffered_cells_
    /\ square_size_px = DEFAULT_SQUARE_SIZE
    /\ square_spacing_px = DEFAULT_SPACING
    /\ hist = <<>>

Panicked == hist # <<>> /\ hist[Len(hist)].panic
Fresh == hist = <<>>
Within(n) == Len(hist) < n /\ ~Panicked

GetCellAt(may) ==
    /\ may
    /\ \E x \in Coords, y \in Coords :
          LET panics == get_cell_at_panics(Self, x, y)
          IN  Outcome(panics, Self,
                      Entry("get_cell_at", x, y, 0, 0, Dead,
                            IF panics THEN Dead ELSE get_cell_at(Self, x, y)))

LiveNeighborCount(may) ==
    /\ may
    /\ \E x \in 0..(width - 1), y \in 0..(height - 1) :
          LET panics == get_live_neighbor_count_panics(Self, x, y)
          IN  Outcome(panics, Self,
                      Entry("get_live_neighbor_count", x, y, 0, 0, Dead,
                            IF panics THEN 0
                            ELSE get_live_neighbor_count(Self, x, y)))

SetCellAt(may) ==
    /\ may
    /\ \E x \in Coords, y \in Coords, c \in Cell :
          Outcome(set_cell_at_panics(Self, x, y), set_cell_at(Self, x, y, c),
                  Entry("set_cell_at", x, y, 0, 0, c, 0))

ToggleCellAt(may) ==
    /\ may
    /\ \E x \in Coords, y \in Coords :
          Outcome(toggle_cell_at_panics(Self, x, y), toggle_cell_at(Self, x, y),
                  Entry("toggle_cell_at", x, y, 0, 0, Dead, 0))

ToggleCellsBetween(may, ends) ==
    /\ may
    /\ \E x1 \in ends, y1 \in ends, x2 \in ends, y2 \in ends :
          LET drives == IF x1 = x2 /\ y1 = y2 THEN "none"
                        ELSE IF x_is_param(x1, y1, x2, y2) THEN "x" ELSE "y"
          IN  Outcome(toggle_cells_between_panics(Self, x1, y1, x2, y2),
                      toggle_cells_between(Self, x1, y1, x2, y2),
                      [Entry("toggle_cells_between", x1, y1, x2, y2, Dead, 0)
                          EXCEPT !.axis = drives])

Clear(may) ==
    /\ may
    /\ Outcome(clear_panics(Self), clear(Self),
               Entry("clear", 0, 0, 0, 0, Dead, 0))

Tick(may) ==
    /\ may
    /\ Outcome(tick_panics(Self), tick(Self),
               Entry("tick", 0, 0, 0, 0, Dead, 0))

\* resize_to(w, h) for a pair <<w, h>> of dims, in a build with or without
\* overflow checks.
ResizeTo(may, dims) ==
    /\ may
    /\ \E d \in dims, overflow_checks \in BOOLEAN :
          Outcome(resize_to_panics(Self, d[1], d[2], overflow_checks),
                  resize_to(Self, d[1], d[2]),
                  Entry("resize_to", d[1], d[2], 0, 0, Dead, 0))

\* Color4 values passed to render_cells: <<red, green, blue, alpha>>.
Colors == {<<255, 128, 0, 255>>}

SetSquareSize(may, sizes) ==
    /\ may
    /\ \E size \in sizes :
          /\ square_size_px' = size
          /\ hist' = Append(hist, Entry("set_square_size", size, 0, 0, 0, Dead, 0))
          /\ UNCHANGED <<width, height, cells, buffered_cells_, square_spacing_px>>

SetSquareSpacing(may, spacings) ==
    /\ may
    /\ \E spacing \in spacings :
          /\ square_spacing_px' = spacing
          /\ hist' = Append(hist, Entry("set_square_spacing", spacing, 0, 0, 0,
                                        Dead, 0))
          /\ UNCHANGED <<width, height, cells, buffered_cells_, square_size_px>>

\* render_cells in a build with or without overflow checks; ret is the
\* image handed to the drawing surface.
RenderCells(may) ==
    /\ may
    /\ \E cell_type \in Cell, color \in Colors :
          LET image == render_cells(Self, square_size_px, square_spacing_px,
                                    cell_type, color)
          IN  \E overflow_checks \in BOOLEAN :
                  LET panics == render_cells_panics(Self, square_size_px,
                                                    square_spacing_px,
                                                    cell_type, overflow_checks)
                  IN  Outcome(panics, Self,
                              Entry("render_cells", 0, 0, 0, 0, cell_type,
                                    IF panics THEN <<>> ELSE image))

\* fill_cells; ret is the sequence of rectangles passed to fill_rect.
FillCells(may) ==
    /\ may
    /\ \E cell_type \in Cell :
          LET panics == fill_cells_panics(Self, cell_type)
          IN  Outcome(panics, Self,
                      Entry("fill_cells", 0, 0, 0, 0, cell_type,
                            IF panics THEN <<>>
                            ELSE fill_cells(Self, square_size_px,
                                            square_spacing_px, cell_type)))

\* Universes in their state after construction.
Init == \E w \in 1..MaxDim, h \in 1..MaxDim : Holds(new(w, h))

Next ==
    \/ GetCellAt(Within(MaxSteps))
    \/ SetCellAt(Within(MaxSteps))
    \/ ToggleCellAt(Within(MaxSteps))
    \/ ToggleCellsBetween(Within(MaxSteps), Corners)
    \/ Clear(Within(MaxSteps))
    \/ Tick(Within(MaxSteps))
    \/ ResizeTo(Within(MaxSteps), (1..MaxDim) \X (1..MaxDim))

Spec == Init /\ [][Next]_vars

\* Universes of every content: each is reached from new by set_cell_at
\* calls, and its back buffer either by resize_to (equal to the primary
\* buffer) or by a tick of the all-Dead grid followed by set_cell_at calls.
AnyDims == {d \in (1..MaxDim) \X (1..MaxDim) : d[1] * d[2] <= MaxCells}

AllDead(n) == [i \in 1..n |-> Dead]

InitAny ==
    \E d \in AnyDims :
        \E cs \in [1..(d[1] * d[2]) -> Cell] :
            \E bs \in {cs, AllDead(d[1] * d[2])} :
                Holds(Universe(d[1], d[2], cs, bs))

\* One operation applied to a universe of any content.
NextOps ==
    \/ GetCellAt(Fresh)
    \/ LiveNeighborCount(Fresh)
    \/ SetCellAt(Fresh)
    \/ Clear(Fresh)
    \/ ResizeTo(Fresh, (1..MaxNewDim) \X (1..MaxNewDim))

SpecOps == InitAny /\ [][NextOps]_vars

\* Toggles in a row on a universe of any content of at most MaxToggleCells.
InitToggle ==
    \E d \in {e \in AnyDims : e[1] * e[2] <= MaxToggleCells} :
        \E cs \in [1..(d[1] * d[2]) -> Cell] :
            Holds(Universe(d[1], d[2], cs, cs))

NextToggle == ToggleCellAt(Within(MaxToggles))

SpecToggle == InitToggle /\ [][NextToggle]_vars

\* The grids that are all Dead but for three horizontally adjacent cells
\* (x-1, y), (x, y), (x+1, y), the columns taken modulo the width.
Blinker(w, h, x, y) ==
    [i \in 1..(w * h) |->
        IF (i - 1) \div w = y /\ (i - 1) % w \in {(x + w - 1) % w, x, (x + 1) % w}
        THEN Alive ELSE Dead]

InitBlinker ==
    \E w \in BlinkerMin..BlinkerMax, h \in BlinkerMin..BlinkerMax :
        \E x \in 0..(w - 1), y \in 0..(h - 1) :
            Holds(Universe(w, h, Blinker(w, h, x, y), Blinker(w, h, x, y)))

\* Ticks in a row, from a universe of any content or from a blinker.
InitTick == InitAny \/ InitBlinker

NextTick == Tick(Within(MaxTicks))

SpecTick == InitTick /\ [][NextTick]_vars

\* One stroke on a freshly constructed universe.
InitLine ==
    \E w \in (MaxLine - 1)..MaxLine, h \in (MaxLine - 1)..MaxLine :
        Holds(new(w, h))

NextLine == ToggleCellsBetween(Fresh, LineCoords)

SpecLine == InitLine /\ [][NextLine]_vars

\* Operations in a row on a freshly constructed universe; a resize may also
\* ask for 2^HalfBits columns and as many rows, 2^WordBits cells.
SeqDims == ((1..MaxDim) \X (1..MaxDim)) \cup {<<Half, Half>>}

NextSeq ==
    \/ GetCellAt(Within(MaxSeq))
    \/ SetCellAt(Within(MaxSeq))
    \/ ToggleCellAt(Within(MaxSeq))
    \/ ToggleCellsBetween(Within(MaxSeq), Corners)
    \/ Clear(Within(MaxSeq))
    \/ Tick(Within(MaxSeq))
    \/ ResizeTo(Within(MaxSeq), SeqDims)

SpecSeq == Init /\ [][NextSeq]_vars

\* Drawing calls in a row on a universe of any content, of at most
\* MaxDrawDim columns and rows and MaxDrawCells cells, whose square size was set to a value up to MaxSize
\* and whose spacing was set to one up to MaxSpacing or left at its default.
DrawSizes == 0..MaxSize
DrawSpacings == (0..MaxSpacing) \cup {DEFAULT_SPACING}

Shows(u, size, spacing) ==
    /\ width = u.width
    /\ height = u.height
    /\ cells = u.cells
    /\ buffered_cells_ = u.buffered_cells_
    /\ square_size_px = size
    /\ square_spacing_px = spacing
    /\ hist = <<>>

InitDraw ==
    \E d \in {e \in (1..MaxDrawDim) \X (1..MaxDrawDim) :
                  e[1] * e[2] <= MaxDrawCells} :
        \E cs \in [1..(d[1] * d[2]) -> Cell] :
            \E size \in DrawSizes, spacing \in DrawSpacings :
                Shows(Universe(d[1], d[2], cs, cs), size, spacing)

NextDraw ==
    \/ SetSquareSize(Fresh, DrawSizes)
    \/ SetSquareSpacing(Fresh, DrawSpacings)
    \/ RenderCells(Within(MaxDraws))
    \/ FillCells(Within(MaxDraws))

SpecDraw == InitDraw /\ [][NextDraw]_vars

\* The same, and the 1x1 universes whose square size was set to
\* 2^(HalfBits - 1), for which 4 * square_size^2 is at least 2^WordBits.
BigSize == pow2(HalfBits - 1)

InitRender ==
    \/ InitDraw
    \/ \E cs \in [1..1 -> Cell], spacing \in 0..MaxSpacing :
          Shows(Universe(1, 1, cs, cs), BigSize, spacing)

SpecRender == InitRender /\ [][NextDraw]_vars

\* One operation applied to a universe of any content of at most
\* MaxTwinCells cells and of any back buffer: each back buffer is left
\* behind by a tick and then kept by set_cell_at calls.
InitTwin ==
    \E d \in {e \in AnyDims : e[1] * e[2] <= MaxTwinCells} :
        \E cs \in [1..(d[1] * d[2]) -> Cell], bs \in [1..(d[1] * d[2]) -> Cell] :
            Holds(Universe(d[1], d[2], cs, bs))

NextTwin ==
    \/ GetCellAt(Fresh)
    \/ SetCellAt(Fresh)
    \/ ToggleCellAt(Fresh)
    \/ ToggleCellsBetween(Fresh, Corners)
    \/ Clear(Fresh)
    \/ Tick(Fresh)
    \/ ResizeTo(Fresh, (1..MaxDim) \X (1..MaxDim))

SpecTwin == InitTwin /\ [][NextTwin]_vars

\* A clear of a universe of any content, and ticks after it.
NextClear ==
    \/ Clear(Fresh)
    \/ Tick(~Fresh /\ Within(MaxTicks))

SpecClear == InitAny /\ [][NextClear]_vars

\* A stroke on a universe of any content of at most MaxTwinCells cells,
\* and the same stroke again.
ToggleCellsBetweenAgain(may) ==
    /\ may
    /\ hist # <<>>
    /\ hist[Len(hist)].op = "toggle_cells_between"
    /\ LET e == hist[Len(hist)]
       IN  Outcome(toggle_cells_between_panics(Self, e.x, e.y, e.x2, e.y2),
                   toggle_cells_between(Self, e.x, e.y, e.x2, e.y2),
                   [Entry("toggle_cells_between", e.x, e.y, e.x2, e.y2, Dead, 0)
                       EXCEPT !.axis = e.axis])

InitStroke ==
    \E d \in {e \in AnyDims : e[1] * e[2] <= MaxStrokeCells} :
        \E cs \in [1..(d[1] * d[2]) -> Cell] :
            Holds(Universe(d[1], d[2], cs, cs))

NextStroke ==
    \/ ToggleCellsBetween(Fresh, Coords)
    \/ ToggleCellsBetweenAgain(Within(MaxToggles))

SpecStroke == InitStroke /\ [][NextStroke]_vars

(***************************************************************************)
(* Properties.                                                             *)
(***************************************************************************)
Last == hist[Len(hist)]
Did(op) == hist # <<>> /\ Last.op = op
Start == IF hist = <<>> THEN Self ELSE hist[1].before
InRange(u, x, y) == x < u.width /\ y < u.height
Points(u) == (0..(u.width - 1)) \X (0..(u.height - 1))
Flip(c) == IF c = Alive THEN Dead ELSE Alive

\* C1: one tick replaces the whole grid at once: each cell becomes Alive iff
\* its live-neighbour count n in the generation before the tick is 3, or it
\* was Alive and n is 2, and Dead otherwise; the dimensions stay; and the
\* fall-through arm of the rule is reached only by a Dead cell with n = 2.
C1_TickAppliesRuleToPreviousGeneration ==
    Did("tick") =>
        LET b == Last.before
        IN  /\ width = b.width /\ height = b.height
            /\ Len(cells) = width * height
            /\ \A p \in Points(b) :
                  LET n == get_live_neighbor_count(b, p[1], p[2])
                      was == get_cell_at(b, p[1], p[2])
                      now == get_cell_at(Self, p[1], p[2])
                  IN  /\ now = (IF n = 3 \/ (was = Alive /\ n = 2)
                                THEN Alive ELSE Dead)
                      /\ tick_arm(was, n) = 4 => (was = Dead /\ n = 2)

\* A tick has acted on a grid in which a later cell's neighbour changed
\* state before it, and in which a Dead cell with two live neighbours took
\* the fall-through arm.
C1_Witness ==
    /\ Did("tick")
    /\ cells # Last.before.cells
    /\ tick_in_place(Last.before).cells # cells
    /\ \E p \in Points(Last.before) :
          tick_arm(get_cell_at(Last.before, p[1], p[2]),
                   get_live_neighbor_count(Last.before, p[1], p[2])) = 4

\* The number of the eight signed offsets (dx, dy) # (0, 0) whose cell
\* ((x + dx) mod width, (y + dy) mod height) of u is Alive.
SignedOffsets == {d \in {-1, 0, 1} \X {-1, 0, 1} : d # <<0, 0>>}

AliveAtOffsets(u, x, y) ==
    Cardinality({d \in SignedOffsets :
        get_cell_at(u, (x + d[1] + u.width) % u.width,
                       (y + d[2] + u.height) % u.height) = Alive})

\* C2: for every width and height >= 1, get_live_neighbor_count(x, y) is the
\* number of the eight signed offsets whose wrapped cell is Alive, counted
\* with multiplicity (8 for the Alive cell of a 1x1 grid).
C2_NeighborCountCoversEightOffsets ==
    Did("get_live_neighbor_count") =>
        Last.ret = AliveAtOffsets(Last.before, Last.x, Last.y)

\* C3: get_cell_at(x, y) returns, for every x and y, the cell at
\* (x mod width, y mod height), cells[(y mod height) * width + x mod width].
C3_GetCellAtWraps ==
    Did("get_cell_at") =>
        LET b == Last.before
            xw == Last.x % b.width
            yw == Last.y % b.height
        IN  /\ Last.ret = get_cell_at(b, xw, yw)
            /\ Last.ret = b.cells[yw * b.width + xw + 1]
            /\ Self = b

\* A read outside the grid in both coordinates has returned an Alive cell
\* of a grid that also holds Dead cells.
C3_Witness ==
    /\ Did("get_cell_at")
    /\ Last.x >= width /\ Last.y >= height
    /\ Last.ret = Alive
    /\ \E i \in 1..Len(cells) : cells[i] = Dead

\* C4: set_cell_at(x, y, c) outside the grid changes nothing (while
\* get_cell_at(x, y) reads a cell of the grid); inside the grid it sets cell
\* (x, y) to c and changes no other cell.
C4_SetCellAtBoundsChecked ==
    Did("set_cell_at") =>
        LET b == Last.before
        IN  /\ width = b.width /\ height = b.height
            /\ buffered_cells_ = b.buffered_cells_
            /\ ~InRange(b, Last.x, Last.y) =>
                  /\ cells = b.cells
                  /\ get_cell_at(Self, Last.x, Last.y) \in Cell
            /\ InRange(b, Last.x, Last.y) =>
                  \A i \in 1..Len(b.cells) :
                      cells[i] = (IF i = Last.y * b.width + Last.x + 1
                                  THEN Last.cell ELSE b.cells[i])
            /\ Len(cells) = Len(b.cells)

\* A write outside the grid has been ignored although the wrapped read of
\* the same coordinates yields the other cell state.
C4_Witness ==
    /\ Did("set_cell_at")
    /\ ~InRange(Self, Last.x, Last.y)
    /\ get_cell_at(Self, Last.x, Last.y) # Last.cell

\* C5: two toggle_cell_at(x, y) in a row, in range or not, restore the grid;
\* one toggle_cell_at(x, y) in range flips cell (x, y) and no other cell.
C5_ToggleIsInvolution ==
    /\ Did("toggle_cell_at") /\ InRange(Last.before, Last.x, Last.y) =>
          /\ width = Last.before.width /\ height = Last.before.height
          /\ Len(cells) = Len(Last.before.cells)
          /\ \A i \in 1..Len(cells) :
                cells[i] = (IF i = Last.y * width + Last.x + 1
                            THEN Flip(Last.before.cells[i])
                            ELSE Last.before.cells[i])
    /\ \A k \in 2..Len(hist) :
          (/\ hist[k].op = "toggle_cell_at" /\ hist[k - 1].op = "toggle_cell_at"
           /\ hist[k].x = hist[k - 1].x /\ hist[k].y = hist[k - 1].y) =>
             LET after == IF k = Len(hist) THEN Self ELSE hist[k + 1].before
             IN  after = hist[k - 1].before

\* The same cell of the grid has been toggled twice in a row.
C5_Witness ==
    /\ Len(hist) >= 2
    /\ Did("toggle_cell_at") /\ hist[Len(hist) - 1].op = "toggle_cell_at"
    /\ Last.x = hist[Len(hist) - 1].x /\ Last.y = hist[Len(hist) - 1].y
    /\ InRange(Self, Last.x, Last.y)
    /\ Last.before.cells # cells

\* C6: right after new(w, h), cell (x, y) with index i = y * w + x is Alive
\* iff i mod 2 = 0 or i mod 7 = 0, and the back buffer holds the same.
C6_NewSeedsPattern ==
    hist = <<>> =>
        /\ Len(cells) = width * height
        /\ \A p \in Points(Self) :
              LET i == p[2] * width + p[1]
              IN  cells[i + 1] = (IF i % 2 = 0 \/ i % 7 = 0 THEN Alive ELSE Dead)
        /\ buffered_cells_ = cells

\* A freshly constructed grid holds the odd multiple of seven, index 7.
C6_Witness ==
    /\ hist = <<>>
    /\ width * height > 7
    /\ cells[8] = Alive /\ cells[6] = Dead

\* The vertical counterpart of Blinker: (x, y-1), (x, y), (x, y+1), the rows
\* taken modulo the height.
VerticalBlinker(w, h, x, y) ==
    [i \in 1..(w * h) |->
        IF (i - 1) % w = x /\ (i - 1) \div w \in {(y + h - 1) % h, y, (y + 1) % h}
        THEN Alive ELSE Dead]

\* C7: from a grid of at least 5x5 that is all Dead but for (x-1, y), (x, y),
\* (x+1, y), one tick leaves exactly (x, y-1), (x, y), (x, y+1) Alive, a
\* second tick gives the starting grid again, and so on with period 2.
C7_BlinkerOscillates ==
    \A p \in Points(Start) :
        (/\ Start.width >= 5 /\ Start.height >= 5
         /\ Start.cells = Blinker(Start.width, Start.height, p[1], p[2])
         /\ \A k \in 1..Len(hist) : hist[k].op = "tick") =>
            /\ width = Start.width /\ height = Start.height
            /\ Len(hist) % 2 = 1 =>
                  cells = VerticalBlinker(width, height, p[1], p[2])
            /\ Len(hist) % 2 = 0 => cells = Start.cells

\* A blinker has been ticked twice: it was vertical in between and is
\* horizontal again.
C7_Witness ==
    /\ Len(hist) = 2
    /\ Start.width >= 5 /\ Start.height >= 5
    /\ \E p \in Points(Start) :
          /\ Start.cells = Blinker(width, height, p[1], p[2])
          /\ hist[2].before.cells = VerticalBlinker(width, height, p[1], p[2])
    /\ cells = Start.cells

AliveCount(u) == Cardinality({i \in 1..Len(u.cells) : u.cells[i] = Alive})

\* C8: on a 3x3 grid, a single Alive cell has live-neighbour count 0 and the
\* grid is all Dead after one tick; with all nine cells Alive every cell
\* has count 8 and the grid is all Dead after one tick.
C8_ThreeByThreeExamples ==
    (Did("tick") /\ Last.before.width = 3 /\ Last.before.height = 3) =>
        LET b == Last.before
        IN  /\ AliveCount(b) = 1 =>
                  /\ \A p \in Points(b) :
                        get_cell_at(b, p[1], p[2]) = Alive =>
                            get_live_neighbor_count(b, p[1], p[2]) = 0
                  /\ cells = AllDead(9)
            /\ AliveCount(b) = 9 =>
                  /\ \A p \in Points(b) :
                        get_live_neighbor_count(b, p[1], p[2]) = 8
                  /\ cells = AllDead(9)

\* The fully Alive 3x3 grid has been ticked.
C8_Witness ==
    /\ Did("tick")
    /\ Last.before.width = 3 /\ Last.before.height = 3
    /\ AliveCount(Last.before) = 9
    /\ Len(hist) = 1

\* round(start + k * delta_s / delta_d) in exact arithmetic, half away from
\* zero, for a value that is not negative.
ExactRound(start, k, delta_s, delta_d) ==
    (2 * (start * delta_d + k * delta_s) + delta_d) \div (2 * delta_d)

\* The cells strictly between two endpoints: one per integer value of the
\* driving axis strictly between the endpoint values.
ExactLine(x1, y1, x2, y2) ==
    IF x1 = x2 /\ y1 = y2 THEN {}
    ELSE IF Abs(x2 - x1) >= Abs(y2 - y1)
    THEN LET a == IF x1 < x2 THEN <<x1, y1, x2, y2>> ELSE <<x2, y2, x1, y1>>
         IN  {<<a[1] + k, ExactRound(a[2], k, a[4] - a[2], a[3] - a[1])>> :
                 k \in 1..(a[3] - a[1] - 1)}
    ELSE LET a == IF y1 < y2 THEN <<x1, y1, x2, y2>> ELSE <<x2, y2, x1, y1>>
         IN  {<<ExactRound(a[1], k, a[3] - a[1], a[4] - a[2]), a[2] + k>> :
                 k \in 1..(a[4] - a[2] - 1)}

Max(a, b) == IF a > b THEN a ELSE b

\* C9: for endpoints inside the grid, toggle_cells_between flips exactly the
\* max(|dx|, |dy|) - 1 cells of the exactly rounded line strictly between
\* them and no other cell; identical endpoints toggle nothing, and
\* (1, 1, 4, 1) flips exactly (2, 1) and (3, 1).
C9_LineTogglesExactlyRoundedCells ==
    (/\ Did("toggle_cells_between")
     /\ InRange(Last.before, Last.x, Last.y)
     /\ InRange(Last.before, Last.x2, Last.y2)) =>
        LET b == Last.before
            line == ExactLine(Last.x, Last.y, Last.x2, Last.y2)
        IN  /\ width = b.width /\ height = b.height
            /\ <<Last.x, Last.y>> # <<Last.x2, Last.y2>> =>
                  Cardinality(line) =
                      Max(Abs(Last.x2 - Last.x), Abs(Last.y2 - Last.y)) - 1
            /\ <<Last.x, Last.y, Last.x2, Last.y2>> = <<1, 1, 4, 1>> =>
                  line = {<<2, 1>>, <<3, 1>>}
            /\ \A p \in Points(b) :
                  get_cell_at(Self, p[1], p[2]) =
                      (IF p \in line THEN Flip(get_cell_at(b, p[1], p[2]))
                       ELSE get_cell_at(b, p[1], p[2]))

\* C10: after resize_to(newW, newH) the dimensions are the new ones, cell i
\* is the old cell ((i mod newW) mod oldW, (i div newW) mod oldH), so that
\* growing tiles the old content and shrinking keeps the top-left sub-grid,
\* and the two buffers are equal.
C10_ResizeSamplesOldTorus ==
    Did("resize_to") =>
        LET b == Last.before
        IN  /\ width = Last.x /\ height = Last.y
            /\ Len(cells) = width * height
            /\ \A i \in 0..(width * height - 1) :
                  cells[i + 1] =
                      b.cells[((i \div width) % b.height) * b.width
                              + ((i % width) % b.width) + 1]
            /\ (width <= b.width /\ height <= b.height) =>
                  \A p \in Points(Self) :
                      get_cell_at(Self, p[1], p[2]) = get_cell_at(b, p[1], p[2])
            /\ buffered_cells_ = cells

\* A grid has grown in both directions, an Alive cell was copied beyond the
\* old width and height, and the old back buffer differed from the primary.
C10_Witness ==
    /\ Did("resize_to")
    /\ width > Last.before.width /\ height > Last.before.height
    /\ cells[width * height] = Alive
    /\ Last.before.buffered_cells_ # Last.before.cells

\* C11: from new(w, h) with w, h >= 1, no call of resize_to(w', h') with
\* w', h' >= 1, tick, clear, get_cell_at, set_cell_at, toggle_cell_at or
\* toggle_cells_between, in any order and with any coordinates, panics.
C11_NoOperationPanics ==
    \A k \in 1..Len(hist) : ~hist[k].panic

\* buf holds exactly w * h cells (stated by division, so that the product
\* of two u32 needs no wider arithmetic).
HasLength(buf, w, h) == w > 0 /\ Len(buf) % w = 0 /\ Len(buf) \div w = h

\* C12: in every state reached from new(w, h) by tick, set_cell_at,
\* toggle_cell_at, toggle_cells_between, clear and resize_to, the primary
\* buffer and the back buffer both hold exactly width * height cells.
C12_BuffersHoldWidthTimesHeight ==
    /\ HasLength(cells, width, height)
    /\ HasLength(buffered_cells_, width, height)

\* The cells of u in state c, and the pixels of the square of cell (x, y):
\* columns [x*(size+spacing)+spacing, x*(size+spacing)+spacing+size) and the
\* rows alike.
Matching(u, c) == {p \in Points(u) : get_cell_at(u, p[1], p[2]) = c}

SquarePixels(size, spacing, x, y) ==
    LET left == x * (size + spacing) + spacing
        top == y * (size + spacing) + spacing
    IN  (left..(left + size - 1)) \X (top..(top + size - 1))

\* The pixels <<column, row>> an image has bytes written for, and the
\* pixels of a rectangle <<x, y, w, h>>.
ImagePixels(img) ==
    {<<(b \div 4) % img.stride, (b \div 4) \div img.stride>> :
        b \in DOMAIN img.data}

RectPixels(r) == (r[1]..(r[1] + r[3] - 1)) \X (r[2]..(r[2] + r[4] - 1))

Rects(rs) == {rs[k] : k \in 1..Len(rs)}

\* C13: for every grid, cell-state filter, size and spacing, render_cells
\* stamps exactly the pixels of the rectangles that fill_cells requests:
\* the squares of the cells whose state equals the filter, cell (x, y) at
\* columns [x*(size+spacing)+spacing, x*(size+spacing)+spacing+size) and the
\* rows alike; and neither mode changes the grid.
C13_RenderStampsWhatFillRequests ==
    LET size == square_size_px
        spacing == square_spacing_px
        Squares(u, c) ==
            UNION {SquarePixels(size, spacing, p[1], p[2]) : p \in Matching(u, c)}
    IN  /\ Did("render_cells") =>
              /\ ~Last.panic
              /\ Self = Last.before
              /\ ImagePixels(Last.ret) = Squares(Self, Last.cell)
              /\ ImagePixels(Last.ret) =
                    UNION {RectPixels(r) :
                              r \in Rects(fill_cells(Self, size, spacing, Last.cell))}
              /\ \A b \in DOMAIN Last.ret.data :
                    \A k \in 0..3 : 4 * (b \div 4) + k \in DOMAIN Last.ret.data
        /\ Did("fill_cells") =>
              /\ ~Last.panic
              /\ Self = Last.before
              /\ Len(Last.ret) = Cardinality(Matching(Self, Last.cell))
              /\ Rects(Last.ret) =
                    {<<p[1] * (size + spacing) + spacing,
                       p[2] * (size + spacing) + spacing, size, size>> :
                        p \in Matching(Self, Last.cell)}
        /\ \A k \in 2..Len(hist) :
              (/\ hist[k - 1].op = "render_cells" /\ hist[k].op = "fill_cells"
               /\ hist[k - 1].cell = hist[k].cell) =>
                  ImagePixels(hist[k - 1].ret) =
                      UNION {RectPixels(r) : r \in Rects(hist[k].ret)}

\* A 2x2 grid with two cells Alive and two Dead was rendered and then
\* filled for the same state, with squares of at least 2 pixels and a
\* spacing of at least 1.
C13_Witness ==
    /\ Len(hist) = 2
    /\ hist[1].op = "render_cells" /\ hist[2].op = "fill_cells"
    /\ hist[1].cell = hist[2].cell
    /\ width = 2 /\ height = 2
    /\ Cardinality(Matching(Self, Last.cell)) = 2
    /\ square_size_px >= 2 /\ square_spacing_px >= 1
    /\ Len(Last.ret) = 2

\* C19: in render_cells, for every width, height >= 1, size >= 0,
\* spacing >= 0 and every grid, each byte index written,
\* 4 * (j * width * (size + spacing) + i) through + 3, lies inside the
\* buffer, whose length is 4 * stride * rows for the stride
\* width * (size + spacing) given to the image-data constructor and
\* height * (size + spacing) rows; and the blocks stamped for distinct
\* cells do not overlap.
C19_RenderWritesInsideBuffer ==
    Did("render_cells") =>
        LET b == Last.before
            size == square_size_px
            spacing == square_spacing_px
            square_size == size + spacing
            image == Last.ret
            drawn == Matching(b, Last.cell)
        IN  /\ ~Last.panic
            /\ image.stride = b.width * square_size
            /\ IF image.stride = 0 THEN image.len = 0
               ELSE /\ image.len % (4 * image.stride) = 0
                    /\ image.len \div (4 * image.stride) = b.height * square_size
            /\ DOMAIN image.data =
                  {4 * (p[2] * b.width * square_size + p[1]) + k :
                      p \in UNION {SquarePixels(size, spacing, q[1], q[2]) :
                                      q \in drawn},
                      k \in 0..3}
            /\ \A i \in DOMAIN image.data : i < image.len
            /\ \A p \in drawn, q \in drawn :
                  p # q => render_block(b, size, spacing, p[1], p[2])
                               \cap render_block(b, size, spacing, q[1], q[2]) = {}

\* The call recorded in entry e made on universe u instead: the universe
\* it leaves and the value it returns.
Redo(e, u) ==
    CASE e.op = "get_cell_at" -> [after |-> u, ret |-> get_cell_at(u, e.x, e.y)]
      [] e.op = "set_cell_at" ->
            [after |-> set_cell_at(u, e.x, e.y, e.cell), ret |-> 0]
      [] e.op = "toggle_cell_at" ->
            [after |-> toggle_cell_at(u, e.x, e.y), ret |-> 0]
      [] e.op = "toggle_cells_between" ->
            [after |-> toggle_cells_between(u, e.x, e.y, e.x2, e.y2), ret |-> 0]
      [] e.op = "clear" -> [after |-> clear(u), ret |-> 0]
      [] e.op = "tick" -> [after |-> tick(u), ret |-> 0]
      [] e.op = "resize_to" -> [after |-> resize_to(u, e.x, e.y), ret |-> 0]

\* Universes that agree with u on width, height and primary cells and
\* have another back buffer: all Dead, all Alive, and each cell flipped.
Twins(u) ==
    {[u EXCEPT !.buffered_cells_ = bs] :
        bs \in {[i \in 1..Len(u.cells) |-> Dead],
                [i \in 1..Len(u.cells) |-> Alive],
                [i \in 1..Len(u.cells) |-> Flip(u.buffered_cells_[i])]}}

\* C14: the back buffer is never observable: a call of tick, set_cell_at,
\* toggle_cell_at, toggle_cells_between, clear, resize_to or get_cell_at
\* on two universes that agree on width, height and primary cells and
\* differ in the back buffer leaves them agreeing on width, height and
\* primary cells and returns the same value; so they agree at every step
\* of every sequence of such calls.
C14_BackBufferNeverObservable ==
    hist # <<>> =>
        \A twin \in Twins(Last.before) :
            LET redone == Redo(Last, twin)
            IN  /\ ~Last.panic
                /\ redone.after.width = width
                /\ redone.after.height = height
                /\ redone.after.cells = cells
                /\ redone.ret = Last.ret

\* A tick has changed the grid of a universe whose back buffer differed
\* from its primary buffer and from the all-Dead buffer.
C14_Witness ==
    /\ Did("tick")
    /\ cells # Last.before.cells
    /\ Last.before.buffered_cells_ # Last.before.cells
    /\ \E i \in 1..Len(cells) : Last.before.buffered_cells_[i] = Alive
    /\ \E twin \in Twins(Last.before) :
          twin.buffered_cells_ # Last.before.buffered_cells_

\* C15: in toggle_cells_between, x is the driving axis whenever
\* |dx| >= |dy|, so a perfectly diagonal segment (|dx| = |dy| # 0) is walked
\* with x as the driving axis and y as the interpolated axis.
C15_XDrivesWheneverNotShorter ==
    (Did("toggle_cells_between") /\ Last.axis # "none") =>
        (Last.axis = "x" <=>
            Abs(Last.x2 - Last.x) >= Abs(Last.y2 - Last.y))

\* C15 as the code has it: x is the driving axis exactly when |dx| > |dy|;
\* a perfectly diagonal segment is walked with y as the driving axis, from
\* the endpoint of the smaller y, one cell per row strictly between the
\* endpoints, and these are the cells of the diagonal.
C15_XDrivesOnlyWhenLonger ==
    (Did("toggle_cells_between") /\ Last.axis # "none") =>
        LET dx == Last.x2 - Last.x
            dy == Last.y2 - Last.y
            vs == visited(Last.x, Last.y, Last.x2, Last.y2)
            low == IF Last.y < Last.y2 THEN <<Last.x, Last.y>>
                   ELSE <<Last.x2, Last.y2>>
            toward == IF (dx > 0) = (dy > 0) THEN 1 ELSE -1
        IN  /\ Last.axis = "x" <=> Abs(dx) > Abs(dy)
            /\ Abs(dx) = Abs(dy) =>
                  /\ Last.axis = "y"
                  /\ Len(vs) = Abs(dy) - 1
                  /\ \A k \in 1..Len(vs) :
                        vs[k] = <<low[1] + toward * k, low[2] + k>>
                  /\ \A p \in Points(Self) :
                        get_cell_at(Self, p[1], p[2]) =
                            (IF \E k \in 1..Len(vs) : vs[k] = p
                             THEN Flip(get_cell_at(Last.before, p[1], p[2]))
                             ELSE get_cell_at(Last.before, p[1], p[2]))

\* A stroke along an anti-diagonal of at least three cells, given from its
\* lower end, has flipped cells of the grid.
C15_Witness ==
    /\ Did("toggle_cells_between")
    /\ Last.x2 - Last.x = Last.y - Last.y2
    /\ Last.y - Last.y2 >= 3
    /\ Last.axis = "y"
    /\ cells # Last.before.cells

\* C16: after clear() on any grid, every cell (x, y) with x < width and
\* y < height is Dead and width and height are as before; and the grid
\* stays all Dead, with the same width and height, after any number of
\* tick() calls that follow.
C16_ClearedGridStaysDead ==
    (/\ hist # <<>> /\ hist[1].op = "clear"
     /\ \A k \in 2..Len(hist) : hist[k].op = "tick") =>
        /\ ~Last.panic
        /\ width = Start.width /\ height = Start.height
        /\ Len(cells) = width * height
        /\ \A p \in Points(Self) : get_cell_at(Self, p[1], p[2]) = Dead

\* A grid of nine Alive cells whose back buffer was all Alive as well has
\* been cleared and then ticked twice.
C16_Witness ==
    /\ Len(hist) = 3
    /\ hist[1].op = "clear" /\ hist[2].op = "tick" /\ hist[3].op = "tick"
    /\ AliveCount(Start) = 9
    /\ \A i \in 1..Len(Start.buffered_cells_) : Start.buffered_cells_[i] = Alive
    /\ AliveCount(Self) = 0

\* C17: toggle_cells_between is symmetric in its endpoints:
\* toggle_cells_between(x1, y1, x2, y2) and (x2, y2, x1, y1) give the same
\* grid, because the walk starts from the endpoint with the smaller value
\* on the driving axis, along which the two endpoints always differ.
C17_StrokeIsSymmetric ==
    Did("toggle_cells_between") =>
        LET vs == visited(Last.x, Last.y, Last.x2, Last.y2)
            driving == IF Last.axis = "x" THEN 1 ELSE 2
            from == IF Last.axis = "x" THEN Last.x ELSE Last.y
            to == IF Last.axis = "x" THEN Last.x2 ELSE Last.y2
        IN  /\ ~Last.panic
            /\ Self = toggle_cells_between(Last.before, Last.x2, Last.y2,
                                           Last.x, Last.y)
            /\ vs = visited(Last.x2, Last.y2, Last.x, Last.y)
            /\ Last.axis # "none" =>
                  /\ from # to
                  /\ \A k \in 1..Len(vs) :
                        vs[k][driving] = (IF from < to THEN from ELSE to) + k

\* A stroke given from its end of the larger driving-axis value, not along
\* a row, a column or a diagonal, has flipped cells of the grid.
C17_Witness ==
    /\ Did("toggle_cells_between")
    /\ Last.axis = "x"
    /\ Last.x2 < Last.x - 2
    /\ Last.y2 # Last.y
    /\ cells # Last.before.cells

\* C18: for every grid and all endpoints, in range or not,
\* toggle_cells_between(x1, y1, x2, y2) twice in a row restores the grid:
\* a call passes no coordinate to toggle_cell_at twice, flips the cells of
\* the coordinates inside the grid and ignores those outside.
C18_StrokeTwiceRestores ==
    /\ Did("toggle_cells_between") =>
          LET vs == visited(Last.x, Last.y, Last.x2, Last.y2)
          IN  /\ ~Last.panic
              /\ \A i \in 1..Len(vs), j \in 1..Len(vs) : i # j => vs[i] # vs[j]
              /\ width = Last.before.width /\ height = Last.before.height
              /\ Len(cells) = Len(Last.before.cells)
              /\ \A p \in Points(Self) :
                    get_cell_at(Self, p[1], p[2]) =
                        (IF \E k \in 1..Len(vs) : vs[k] = p
                         THEN Flip(get_cell_at(Last.before, p[1], p[2]))
                         ELSE get_cell_at(Last.before, p[1], p[2]))
    /\ \A k \in 2..Len(hist) :
          (/\ hist[k].op = "toggle_cells_between"
           /\ hist[k - 1].op = "toggle_cells_between"
           /\ <<hist[k].x, hist[k].y, hist[k].x2, hist[k].y2>> =
                 <<hist[k - 1].x, hist[k - 1].y, hist[k - 1].x2, hist[k - 1].y2>>) =>
             LET after == IF k = Len(hist) THEN Self ELSE hist[k + 1].before
             IN  after = hist[k - 1].before

\* A stroke that passes a cell of the grid and a coordinate outside the
\* grid has been made twice, and the grid changed in between.
C18_Witness ==
    /\ Len(hist) = 2
    /\ Did("toggle_cells_between")
    /\ hist[1].op = "toggle_cells_between"
    /\ hist[2].before.cells # hist[1].before.cells
    /\ LET vs == visited(Last.x, Last.y, Last.x2, Last.y2)
       IN  /\ \E k \in 1..Len(vs) : InRange(Self, vs[k][1], vs[k][2])
           /\ \E k \in 1..Len(vs) : ~InRange(Self, vs[k][1], vs[k][2])
    /\ cells = Start.cells

====
